---- MODULE Spec2Model ----
(***************************************************************************)
(* TerraSmart CLI (apps/cli/terrasmartrun): the natural-language -> DSL    *)
(* pipeline of `ts plan`, `ts dryrun` and `ts apply`.                      *)
(*                                                                         *)
(* Python values are modelled as follows.  A str is a TLA+ string (TLC     *)
(* evaluates Len, \o and SubSeq on strings).  None is the reserved token   *)
(* None, which no input contains.  A dict is a function from its keys to   *)
(* its values.  A call that may raise returns a result record              *)
(* [ok, val, exc]: Ok(v) when it returns v, Raise(e) when it raises e.     *)
(***************************************************************************)
EXTENDS Integers, Sequences, FiniteSets, TLC

VARIABLES
    cmd,            \* the subcommand of this invocation: plan, dryrun, apply
    approve,        \* apply's --approve flag
    config,         \* the Config loaded by load_config()
    environ,        \* os.environ: CLOUDFLARE_ACCOUNT_ID ("" when unset)
    prompt,         \* the PROMPT argument
    pc,             \* position in the command's body
    llm,            \* what _call_openai did: a result record
    dsl_data,       \* the local dsl_data of plan/dryrun (NoDoc before to_dsl returns)
    error,          \* the message error_exit printed, "" if none
    exit_code,      \* the exit status, once pc = "exited"
    openai_calls,   \* number of client.chat.completions.create calls
    fallback_calls, \* number of _fallback_parser calls
    pp_calls,       \* number of _post_process_dsl calls
    validated,      \* the document handed to validate_dsl (NoDoc if none)
    valid_ok,       \* validate_dsl returned without raising
    rendered,       \* the document render_terraform wrote files for (NoDoc if none)
    tf_runs,        \* the terraform subcommands run, in order, with exit codes
    messages,       \* the success messages printed
    arg,            \* pure-function specifications: the argument
    res1,           \* ... the result of applying the function to arg
    res2            \* ... the result of applying it again to res1's value

vars == <<cmd, approve, config, environ, prompt, pc, llm, dsl_data, error, exit_code,
          openai_calls, fallback_calls, pp_calls, validated, valid_ok,
          rendered, tf_runs, messages, arg, res1, res2>>

----------------------------------------------------------------------------
(* Python values *)

None == "<None>"
NoDoc == [absent |-> TRUE]

Ok(v) == [ok |-> TRUE, val |-> v, exc |-> ""]
Raise(e) == [ok |-> FALSE, val |-> NoDoc, exc |-> e]
NoResult == [ok |-> FALSE, val |-> NoDoc, exc |-> "<not called>"]

\* bool(v) for an Optional[str]
Truthy(v) == v # None /\ v # ""

\* dict.get(k) and dict[k] = v
Get(d, k) == IF k \in DOMAIN d THEN d[k] ELSE None
GetOr(d, k, dflt) == IF k \in DOMAIN d THEN d[k] ELSE dflt
SetKey(d, k, v) == [f \in (DOMAIN d) \cup {k} |-> IF f = k THEN v ELSE d[f]]
\* {} and {**d, **e}
EmptyDict == [f \in {} |-> None]
Merge(d, e) == [f \in (DOMAIN d) \cup (DOMAIN e) |-> IF f \in DOMAIN e THEN e[f] ELSE d[f]]

----------------------------------------------------------------------------
(* str methods *)

CharAt(s, i) == SubSeq(s, i, i)
Min(a, b) == IF a <= b THEN a ELSE b

\* s[a-1:b]: the characters at positions a..b that s has
Slice(s, a, b) ==
    IF a > b \/ a > Len(s) THEN "" ELSE SubSeq(s, a, Min(b, Len(s)))

\* s.endswith(suffix)
EndsWith(s, suffix) ==
    /\ Len(s) >= Len(suffix)
    /\ SubSeq(s, Len(s) - Len(suffix) + 1, Len(s)) = suffix

\* sub in s
Contains(s, sub) ==
    \E i \in 1..(Len(s) - Len(sub) + 1) : SubSeq(s, i, i + Len(sub) - 1) = sub

\* s.split(sep) for a one-character sep: the list of the pieces between seps
RECURSIVE split(_, _)
split(s, sep) ==
    IF \E i \in 1..Len(s) : CharAt(s, i) = sep
    THEN LET i == CHOOSE k \in 1..Len(s) :
                    /\ CharAt(s, k) = sep
                    /\ \A j \in 1..(k - 1) : CharAt(s, j) # sep
         IN  <<SubSeq(s, 1, i - 1)>> \o split(SubSeq(s, i + 1, Len(s)), sep)
    ELSE <<s>>

\* sep.join(parts)
RECURSIVE join(_, _)
join(sep, parts) ==
    IF Len(parts) = 0 THEN ""
    ELSE IF Len(parts) = 1 THEN parts[1]
    ELSE parts[1] \o sep \o join(sep, Tail(parts))

UpperCase == "ABCDEFGHIJKLMNOPQRSTUVWXYZ"
LowerCase == "abcdefghijklmnopqrstuvwxyz"
Digits == "0123456789"

CharsOf(s) == {CharAt(s, k) : k \in 1..Len(s)}
UpperChars == CharsOf(UpperCase)
LowerOf == [c \in UpperChars |->
               CharAt(LowerCase, CHOOSE k \in 1..Len(UpperCase) : CharAt(UpperCase, k) = c)]
LowerChar(c) == IF c \in UpperChars THEN LowerOf[c] ELSE c

\* s.lower()
RECURSIVE lower(_)
lower(s) ==
    IF Len(s) = 0 THEN ""
    ELSE LowerChar(CharAt(s, 1)) \o lower(SubSeq(s, 2, Len(s)))

\* s.replace(old, new) for a one-character old
RECURSIVE replace(_, _, _)
replace(s, old, new) ==
    IF Len(s) = 0 THEN ""
    ELSE (IF CharAt(s, 1) = old THEN new ELSE CharAt(s, 1))
             \o replace(SubSeq(s, 2, Len(s)), old, new)

\* the character classes \d (ASCII), [a-z], [a-z0-9], [a-z0-9-], [a-z0-9.-], \s
DigitChars == CharsOf(Digits)
LetterChars == CharsOf(LowerCase)
AlnumChars == LetterChars \cup DigitChars
DomainChars == AlnumChars \cup {"-", "."}
SpaceChars == {" ", "\t", "\n", "\r", "\f"}
IsDigit(c) == c \in DigitChars
IsAlnum(c) == c \in AlnumChars
IsAlnumHyphen(c) == c \in AlnumChars \cup {"-"}
IsSpace(c) == c \in SpaceChars

\* s.strip()
RECURSIVE strip(_)
strip(s) ==
    IF Len(s) > 0 /\ IsSpace(CharAt(s, 1)) THEN strip(SubSeq(s, 2, Len(s)))
    ELSE IF Len(s) > 0 /\ IsSpace(CharAt(s, Len(s))) THEN strip(SubSeq(s, 1, Len(s) - 1))
    ELSE s

\* the least element of a non-empty set of integers, and the greatest
Least(S) == CHOOSE x \in S : \A y \in S : x <= y
Greatest(S) == CHOOSE x \in S : \A y \in S : x >= y

----------------------------------------------------------------------------
(* llm.py: _post_process_dsl *)

\* llm.py:15: the five intents of the DSL
Intents ==
    {"create_worker_and_bind_domain", "create_dns_record", "create_kv_namespace",
     "create_d1_database", "delete_dns_record"}
DnsIntents == {"create_dns_record", "delete_dns_record"}

\* llm.py:207-211: a zone_name of "@" is replaced
FixRootZone(d, cfg) ==
    IF Get(d, "zone_name") = "@"
    THEN SetKey(d, "zone_name",
                IF Truthy(cfg.default_zone) THEN cfg.default_zone
                                            ELSE "example.com")
    ELSE d

\* llm.py:219-220
EnsureZone(d, cfg) ==
    IF "zone_name" \notin DOMAIN d /\ Truthy(cfg.default_zone)
    THEN SetKey(d, "zone_name", cfg.default_zone)
    ELSE d

\* A plausible slip in llm.py:237: the "." between label and zone left out.
RebuildHostnameNoDot(subdomain, zone) == subdomain \o zone

\* llm.py:237: f"{subdomain}.{config.default_zone}"
RebuildHostname(subdomain, zone) == subdomain \o "." \o zone

\* A plausible slip in llm.py:223: the test of the intent left out, so
\* that every document is forced under the configured zone.
ForceZoneAnyIntent(d, cfg) ==
    IF Truthy(cfg.default_zone)
    THEN LET z  == cfg.default_zone
             d1 == SetKey(d, "zone_name", z)
         IN  IF "hostname" \notin DOMAIN d1 \/ Get(d1, "hostname") \in {"@", z}
             THEN SetKey(d1, "hostname", z)
             ELSE LET hostname == GetOr(d1, "hostname", "")
                      parts    == split(hostname, ".")
                  IN  IF ~EndsWith(hostname, "." \o z) /\ Len(parts) > 1
                      THEN SetKey(d1, "hostname", RebuildHostname(parts[1], z))
                      ELSE d1
    ELSE d

\* llm.py:223-237: the DNS intents are forced under the configured zone
ForceZone(d, cfg) ==
    IF Get(d, "intent") \in DnsIntents /\ Truthy(cfg.default_zone)
    THEN LET z  == cfg.default_zone
             d1 == SetKey(d, "zone_name", z)
         IN  IF "hostname" \notin DOMAIN d1 \/ Get(d1, "hostname") \in {"@", z}
             THEN SetKey(d1, "hostname", z)
             ELSE LET hostname == GetOr(d1, "hostname", "")
                      parts    == split(hostname, ".")
                  IN  IF ~EndsWith(hostname, "." \o z) /\ Len(parts) > 1
                      THEN SetKey(d1, "hostname", RebuildHostname(parts[1], z))
                      ELSE d1
    ELSE d

\* a JSON value that json.loads returns and that is no object (a list, a
\* string, a number, null)
NotADict == [not_a_dict |-> TRUE]

\* llm.py:204-239.  Line 207 calls dsl_data.get: an AttributeError when the
\* response was no JSON object.  Line 216 reads dsl_data["zone_name"] before
\* line 219 supplies a missing zone_name: a KeyError when the key is absent.
_post_process_dsl(d, cfg) ==
    LET d1 == FixRootZone(d, cfg)
    IN  IF d = NotADict THEN Raise("AttributeError")
        ELSE IF Get(d1, "intent") \in DnsIntents /\ "hostname" \notin DOMAIN d1
        THEN IF "zone_name" \in DOMAIN d1
             THEN Ok(ForceZone(EnsureZone(SetKey(d1, "hostname", d1["zone_name"]), cfg), cfg))
             ELSE Raise("KeyError")
        ELSE Ok(ForceZone(EnsureZone(d1, cfg), cfg))

----------------------------------------------------------------------------
(* llm.py: _fallback_parser *)

\* any(word in text for word in words)
AnyWordIn(words, text) == \E w \in words : Contains(text, w)

\* the length of the longest run, starting at position i of s, of characters
\* that are in chars (within = TRUE) or are not in chars (within = FALSE)
RunLen(s, i, chars, within) ==
    Least({k \in i..(Len(s) + 1) :
              k = Len(s) + 1 \/ (CharAt(s, k) \in chars) # within}) - i

\* the "." of the run of length run at i that at least two letters follow
DomainDots(s, i, run) ==
    {k \in (i + 1)..(i + run - 1) : CharAt(s, k) = "." /\ RunLen(s, k + 1, LetterChars, TRUE) >= 2}

\* the position just after the letters that follow the last of dots
EndAfterLastDot(s, dots) ==
    IF dots = {} THEN 0
    ELSE Greatest(dots) + 1 + RunLen(s, Greatest(dots) + 1, LetterChars, TRUE)

\* llm.py:89-90: the group ([a-z0-9.-]+\.[a-z]{2,}) matched at position i:
\* the position just after the match, 0 if there is none.  Both repetitions
\* are greedy: the last "." of the run that two letters follow ends the
\* first, and the second takes every letter after it.
DomainGroupEnd(s, i) == EndAfterLastDot(s, DomainDots(s, i, RunLen(s, i, DomainChars, TRUE)))

\* the positions of s where the group matches
DomainStarts(s) == {i \in 1..Len(s) : DomainGroupEnd(s, i) > 0}

\* the text of the group matched at position i
GroupAt(s, i) == SubSeq(s, i, DomainGroupEnd(s, i) - 1)

\* group(1) of the leftmost match, None without a match
LeftmostGroup(s, starts) == IF starts = {} THEN None ELSE GroupAt(s, Least(starts))

\* re.search(r'([a-z0-9.-]+\.[a-z]{2,})', s).group(1), None without a match
SearchDomain(s) == LeftmostGroup(s, DomainStarts(s))

\* llm.py:89
HostVerbs == {"conecta", "bind", "domain", "host"}

\* the positions just after a verb that starts at position p
VerbEnds(s, p) == {p + Len(v) : v \in {w \in HostVerbs : Slice(s, p, p + Len(w) - 1) = w}}

\* the positions where .*? can hand over to the group after a verb at p: no
\* line break lies in between
VerbGroups(s, p, starts) ==
    {q \in starts : \E a \in VerbEnds(s, p) :
                       a <= q /\ \A k \in a..(q - 1) : CharAt(s, k) # "\n"}

\* the nearest group after the leftmost verb of ps
NearestGroup(s, ps, starts) ==
    IF ps = {} THEN None ELSE GroupAt(s, Least(VerbGroups(s, Least(ps), starts)))

\* the search, given the positions where the group matches
SearchVerbDomainIn(s, starts) ==
    NearestGroup(s, {p \in 1..Len(s) : VerbGroups(s, p, starts) # {}}, starts)

\* re.search(r'(?:conecta|bind|domain|host).*?([a-z0-9.-]+\.[a-z]{2,})', s)
\* .group(1): from the leftmost verb that a domain follows on the same line,
\* the nearest such domain
SearchVerbDomain(s) == SearchVerbDomainIn(s, DomainStarts(s))

\* llm.py:94-98: the first pattern that matches decides
FirstMatch(first, second) == IF first # None THEN first ELSE second

\* llm.py:93-98
ExtractHostname(prompt_lower) ==
    FirstMatch(SearchVerbDomain(prompt_lower), SearchDomain(prompt_lower))

\* llm.py:100-111, hostname being what the patterns found
HostnameOrDefault(prompt_text, prompt_lower, cfg, hostname) ==
    IF Contains(prompt_text, "@") \/ Contains(prompt_lower, "apuntando a @")
    THEN IF Truthy(cfg.default_zone) THEN cfg.default_zone ELSE "example.com"
    ELSE IF ~Truthy(hostname)
    THEN IF Truthy(cfg.default_zone) THEN "app." \o cfg.default_zone
                                     ELSE "app.example.com"
    ELSE hostname

\* llm.py:93-111
ChooseHostname(prompt_text, prompt_lower, cfg) ==
    HostnameOrDefault(prompt_text, prompt_lower, cfg, ExtractHostname(prompt_lower))

\* llm.py:115-118
ZoneOfParts(hostname, parts) ==
    IF Len(parts) >= 2
    THEN join(".", SubSeq(parts, Len(parts) - 1, Len(parts)))
    ELSE hostname

\* llm.py:113-118
DeriveZone(hostname) == ZoneOfParts(hostname, split(hostname, "."))

\* llm.py:120-131.  The elif chain hangs on the deletion test: a prompt with
\* a deletion word and no record word keeps the default intent.
ClassifyIntent(prompt_lower) ==
    IF AnyWordIn({"eliminar", "delete", "borrar", "quitar", "remove"}, prompt_lower)
    THEN IF AnyWordIn({"dns", "record", "txt", "cname", "a record"}, prompt_lower)
         THEN "delete_dns_record"
         ELSE "create_worker_and_bind_domain"
    ELSE IF AnyWordIn({"dns", "record", "cname", "a record"}, prompt_lower)
    THEN "create_dns_record"
    ELSE IF AnyWordIn({"kv", "namespace", "storage"}, prompt_lower)
    THEN "create_kv_namespace"
    ELSE IF AnyWordIn({"d1", "database", "db"}, prompt_lower)
    THEN "create_d1_database"
    ELSE "create_worker_and_bind_domain"

\* llm.py:135 and render.py:102: Cloudflare's limit on a worker name
WorkerNameLimit == 63

\* llm.py:135-136: worker_name[:63]
Truncate(worker_name) ==
    IF Len(worker_name) > WorkerNameLimit
    THEN SubSeq(worker_name, 1, WorkerNameLimit)
    ELSE worker_name

\* llm.py:133-136 (and render.py:101-103)
DeriveWorkerName(hostname) == Truncate(replace(replace(hostname, ".", "-"), "_", "-"))

\* llm.py:162: the alternatives of (?:diga|contenido|content), in order
ContentWords == <<"diga", "contenido", "content">>

\* llm.py:162: the class ["\s]
QuoteOrSpaceChars == SpaceChars \cup {"\""}

\* llm.py:162: the class [^"]
NotQuote(c) == c # "\""

\* the greatest position of a set, 0 for the empty set
GreatestOrZero(S) == IF S = {} THEN 0 ELSE Greatest(S)

\* llm.py:162: where the group ([^"]+) starts when the keyword ended just
\* before a, 0 without a match.  ["\s]* is greedy: the group starts at the
\* first character after the quotes and blanks, or, when they run to the end
\* of the string, at the last blank among them.
ContentGroupStart(s, a) ==
    IF a + RunLen(s, a, QuoteOrSpaceChars, TRUE) <= Len(s)
    THEN a + RunLen(s, a, QuoteOrSpaceChars, TRUE)
    ELSE GreatestOrZero({k \in a..Len(s) : NotQuote(CharAt(s, k))})

\* the alternatives that match at position p
ContentMatches(s, p) ==
    {n \in 1..Len(ContentWords) :
        /\ Slice(s, p, p + Len(ContentWords[n]) - 1) = ContentWords[n]
        /\ ContentGroupStart(s, p + Len(ContentWords[n])) # 0}

\* the group that starts at g
ContentFrom(s, g) == SubSeq(s, g, g + RunLen(s, g, {"\""}, FALSE) - 1)

\* group(1) of the leftmost match
ContentOf(s, hits) ==
    IF hits = {} THEN None
    ELSE ContentFrom(s, ContentGroupStart(s,
             Least(hits) + Len(ContentWords[Least(ContentMatches(s, Least(hits)))])))

\* llm.py:162: re.search(r'(?:diga|contenido|content)["\s]*([^"]+)', s)
\* .group(1), None without a match
SearchContent(s) == ContentOf(s, {p \in 1..Len(s) : ContentMatches(s, p) # {}})

\* llm.py:155-174: record_type
RecordType(prompt_lower) ==
    IF AnyWordIn({"txt", "text"}, prompt_lower) THEN "TXT"
    ELSE IF AnyWordIn({"cname"}, prompt_lower) THEN "CNAME"
    ELSE IF AnyWordIn({"a record", "tipo a"}, prompt_lower) THEN "A"
    ELSE "TXT"

\* llm.py:156-174: content, found being group(1) of the search of line 162
RecordContent(prompt_lower, zone_name, found) ==
    IF AnyWordIn({"txt", "text"}, prompt_lower)
    THEN IF found # None THEN strip(found)
         ELSE IF Contains(prompt_lower, "hello mundo") \/ Contains(prompt_lower, "hello world")
         THEN "Hello Mundo"
         ELSE "managed-by-terrasmart"
    ELSE IF AnyWordIn({"cname"}, prompt_lower) THEN zone_name
    ELSE IF AnyWordIn({"a record", "tipo a"}, prompt_lower) THEN "192.0.2.1"
    ELSE "managed-by-terrasmart"

\* llm.py:153-179
CreateRecord(prompt_lower, zone_name) ==
    [type    |-> RecordType(prompt_lower),
     content |-> RecordContent(prompt_lower, zone_name, SearchContent(prompt_lower)),
     ttl     |-> 300,
     proxied |-> FALSE]

\* llm.py:180-199
DeleteRecord(prompt_lower) ==
    IF AnyWordIn({"txt", "text"}, prompt_lower)
    THEN IF Contains(prompt_lower, "hello")
         THEN [type |-> "TXT", content |-> "Hello Mundo"]
         ELSE [type |-> "TXT"]
    ELSE IF AnyWordIn({"cname"}, prompt_lower) THEN [type |-> "CNAME"]
    ELSE IF AnyWordIn({"a record", "tipo a"}, prompt_lower) THEN [type |-> "A"]
    ELSE [type |-> "TXT"]

\* llm.py:138-199: the document, from the three values found
BuildDsl(prompt_lower, hostname, zone_name, intent) ==
    IF intent = "create_worker_and_bind_domain"
    THEN [intent |-> intent, zone_name |-> zone_name, hostname |-> hostname,
          routing  |-> [mode |-> "custom_domain"],
          worker   |-> [name |-> DeriveWorkerName(hostname), module |-> TRUE,
                        compatibility_date |-> "2024-01-01"],
          bindings |-> [kv |-> <<>>, d1 |-> <<>>]]
    ELSE IF intent = "create_dns_record"
    THEN [intent |-> intent, zone_name |-> zone_name, hostname |-> hostname,
          dns_record |-> CreateRecord(prompt_lower, zone_name)]
    ELSE IF intent = "delete_dns_record"
    THEN [intent |-> intent, zone_name |-> zone_name, hostname |-> hostname,
          dns_record |-> DeleteRecord(prompt_lower)]
    ELSE [intent |-> intent, zone_name |-> zone_name, hostname |-> hostname]

\* llm.py:113-199, hostname being chosen
BodyFromHostname(prompt_lower, hostname) ==
    BuildDsl(prompt_lower, hostname, DeriveZone(hostname), ClassifyIntent(prompt_lower))

\* llm.py:93-199, prompt_lower being computed
BodyFromLower(prompt_text, prompt_lower, cfg) ==
    BodyFromHostname(prompt_lower, ChooseHostname(prompt_text, prompt_lower, cfg))

\* llm.py:85-201, the statements of the body in order
FallbackBody(prompt_text, cfg) == BodyFromLower(prompt_text, lower(prompt_text), cfg)

\* The names the body of _fallback_parser binds (by assignment, for or
\* import), which Python therefore treats as local in the whole body.  "re"
\* is one of them: llm.py:161 is an `import re` inside the function, so the
\* module's own `import re` (llm.py:3) is not what the body reads.
FallbackLocals ==
    {"prompt_lower", "hostname_patterns", "hostname", "pattern", "match", "parts",
     "zone_name", "intent", "worker_name", "dsl", "record_type", "content",
     "content_match", "re"}

\* The locals bound when control first reaches llm.py:95, re.search(...):
\* lines 85-94 have run, line 161 has not.
BoundAtFirstSearch == {"prompt_lower", "hostname_patterns", "hostname", "pattern"}

\* llm.py:83-201.  Line 95 runs on every call (hostname_patterns is not
\* empty) and reads the local "re" before anything bound it: Python raises
\* UnboundLocalError there, whatever the prompt and the configuration.
_fallback_parser(prompt_text, cfg) ==
    IF "re" \in FallbackLocals \ BoundAtFirstSearch
    THEN Raise("UnboundLocalError")
    ELSE Ok(FallbackBody(prompt_text, cfg))

----------------------------------------------------------------------------
(* dsl.py: validate_dsl *)

\* Python's "$": at the end of the string, or just before a final newline
DollarAt(s, j) == j = Len(s) + 1 \/ (j = Len(s) /\ CharAt(s, j) = "\n")

\* dsl.py:82-86: re.match(r'^\d{4}-\d{2}-\d{2}$', date_str)
_is_valid_date_format(date_str) ==
    /\ Len(date_str) >= 10
    /\ \A i \in {1, 2, 3, 4, 6, 7, 9, 10} : IsDigit(CharAt(date_str, i))
    /\ CharAt(date_str, 5) = "-"
    /\ CharAt(date_str, 8) = "-"
    /\ DollarAt(date_str, 11)

\* the {0,61} of the label pattern, dsl.py:93 and dsl.py:101
LabelMiddleMax == 61

\* the positions just after a match of [a-z0-9]([a-z0-9-]{0,61}[a-z0-9])?
\* that starts at position i of s
LabelEnds(s, i) ==
    IF i > Len(s) \/ ~IsAlnum(CharAt(s, i)) THEN {}
    ELSE {i + 1} \cup
         {j \in (i + 2)..Min(i + LabelMiddleMax + 2, Len(s) + 1) :
             /\ IsAlnum(CharAt(s, j - 1))
             /\ \A k \in (i + 1)..(j - 2) : IsAlnumHyphen(CharAt(s, k))}

\* a match of  label(\.label)*$  starting at position i of s
RECURSIVE LabelsMatchFrom(_, _)
LabelsMatchFrom(s, i) ==
    \E j \in LabelEnds(s, i) :
        \/ DollarAt(s, j)
        \/ j <= Len(s) /\ CharAt(s, j) = "." /\ LabelsMatchFrom(s, j + 1)

\* A plausible slip in dsl.py:93: (\.label)+ for (\.label)*, which asks
\* every hostname for a second label.
RECURSIVE LabelsMatchFromTwo(_, _, _)
LabelsMatchFromTwo(s, i, n) ==
    \E j \in LabelEnds(s, i) :
        \/ n >= 1 /\ DollarAt(s, j)
        \/ j <= Len(s) /\ CharAt(s, j) = "." /\ LabelsMatchFromTwo(s, j + 1, n + 1)
IsValidHostnameTwoLabels(hostname) == LabelsMatchFromTwo(lower(hostname), 1, 0)

\* dsl.py:89-94
_is_valid_hostname(hostname) == LabelsMatchFrom(lower(hostname), 1)

\* dsl.py:97-102
_is_valid_domain(domain) == LabelsMatchFrom(lower(domain), 1) /\ Contains(domain, ".")

\* dsl.py:63: Cloudflare's limit on a worker name
WorkerNameMax == 63

\* A plausible slip in dsl.py:63: ">=" for ">".
WorkerNameTooLongOffByOne(name) == Len(name) >= WorkerNameMax

\* dsl.py:63
WorkerNameTooLong(name) == Len(name) > WorkerNameMax

\* A plausible reordering of dsl.py:51-79: the hostname and the zone name
\* looked at before the worker.
CustomRulesHostnameFirst(d) ==
    LET intent   == Get(d, "intent")
        isWorker == intent = "create_worker_and_bind_domain"
        worker   == d["worker"]
    IN  IF ~_is_valid_hostname(GetOr(d, "hostname", ""))
        THEN Raise("ValueError: Invalid hostname format")
        ELSE IF ~_is_valid_domain(GetOr(d, "zone_name", ""))
        THEN Raise("ValueError: Invalid zone_name format")
        ELSE IF isWorker /\ "worker" \notin DOMAIN d
        THEN Raise("ValueError: Worker configuration is required")
        ELSE IF isWorker /\ WorkerNameTooLong(GetOr(worker, "name", ""))
        THEN Raise("ValueError: Worker name must be 63 characters or less")
        ELSE IF isWorker /\ ~_is_valid_date_format(GetOr(worker, "compatibility_date", ""))
        THEN Raise("ValueError: Worker compatibility_date must be in YYYY-MM-DD format")
        ELSE Ok(d)

\* dsl.py:51-79: the rules in the order of the code, the first violated
\* one raising ValueError
_validate_custom_rules(d) ==
    LET intent   == Get(d, "intent")
        isWorker == intent = "create_worker_and_bind_domain"
        worker   == d["worker"]
    IN  IF isWorker /\ "worker" \notin DOMAIN d
        THEN Raise("ValueError: Worker configuration is required")
        ELSE IF isWorker /\ WorkerNameTooLong(GetOr(worker, "name", ""))
        THEN Raise("ValueError: Worker name must be 63 characters or less")
        ELSE IF isWorker /\ ~_is_valid_date_format(GetOr(worker, "compatibility_date", ""))
        THEN Raise("ValueError: Worker compatibility_date must be in YYYY-MM-DD format")
        ELSE IF ~_is_valid_hostname(GetOr(d, "hostname", ""))
        THEN Raise("ValueError: Invalid hostname format")
        ELSE IF ~_is_valid_domain(GetOr(d, "zone_name", ""))
        THEN Raise("ValueError: Invalid zone_name format")
        ELSE Ok(d)

\* schema/dsl.schema.json is not among the sources.  What jsonschema.validate
\* does with it is taken from the data model of the specification (required
\* fields, enumerations), except that dns_record is not required for
\* create_dns_record: tests/test_dsl.py:28-37 validates such a document.
RoutingModes == {"custom_domain", "route"}
RecordTypes == {"A", "AAAA", "CNAME", "TXT", "MX", "NS"}
SchemaAccepts(d) ==
    /\ {"intent", "zone_name", "hostname"} \subseteq DOMAIN d
    /\ d["intent"] \in Intents
    /\ "routing" \in DOMAIN d => Get(d["routing"], "mode") \in RoutingModes \cup {None}
    /\ "dns_record" \in DOMAIN d =>
           /\ "type" \in DOMAIN d["dns_record"]
           /\ d["dns_record"]["type"] \in RecordTypes
    /\ d["intent"] = "delete_dns_record" => "dns_record" \in DOMAIN d

\* dsl.py:36-48: the schema first, then the custom rules
validate_dsl(d) ==
    IF ~SchemaAccepts(d)
    THEN Raise("ValueError: DSL validation failed")
    ELSE _validate_custom_rules(d)

----------------------------------------------------------------------------
(* Inputs of the post-processor: the documents a model response can hold *)

Absent == "<absent>"
WithField(d, k, v) == IF v = Absent THEN d ELSE SetKey(d, k, v)

MaxLabels == 3
Labels == {"foo", "example", "com", "org"}

RECURSIVE LabelSeqs(_)
LabelSeqs(n) ==
    IF n = 0 THEN {<<>>}
    ELSE LET S == LabelSeqs(n - 1)
         IN  S \cup {Append(s, l) : s \in {t \in S : Len(t) = n - 1}, l \in Labels}

\* dotted names of 1..MaxLabels labels, and the root marker
Hostnames == {join(".", s) : s \in LabelSeqs(MaxLabels) \ {<<>>}} \cup {"@"}
ZoneNames == {"@", "example.com", "foo.org", "other.com"}
DefaultZones == {None, "", "example.com", "foo.org"}

WorkerFields ==
    [routing  |-> [mode |-> "custom_domain"],
     worker   |-> [name |-> "api-example-com", module |-> TRUE,
                   compatibility_date |-> "2024-01-01"],
     bindings |-> [kv |-> <<>>, d1 |-> <<>>]]
DnsRecordFields ==
    [dns_record |-> [type |-> "TXT", content |-> "hello", ttl |-> 300, proxied |-> FALSE]]

RawDocs ==
    {Merge(WithField(WithField(WithField(EmptyDict, "intent", i), "zone_name", z),
                     "hostname", h), e) :
        i \in Intents \cup {Absent}, z \in ZoneNames \cup {Absent},
        h \in Hostnames \cup {Absent}, e \in {EmptyDict, WorkerFields, DnsRecordFields}}

PPConfigs ==
    [openai_api_key : {"sk-test"}, default_zone : DefaultZones, account_id : {None}]

----------------------------------------------------------------------------
(* The variables a specification does not use stay at these values *)

PipelineIdle ==
    /\ cmd = "none" /\ approve = FALSE /\ environ = ""
    /\ llm = NoResult /\ dsl_data = NoDoc /\ error = "" /\ exit_code = 0
    /\ openai_calls = 0 /\ fallback_calls = 0 /\ pp_calls = 0
    /\ validated = NoDoc /\ valid_ok = FALSE /\ rendered = NoDoc
    /\ tf_runs = <<>> /\ messages = {}

PipelineUnchanged ==
    UNCHANGED <<cmd, approve, environ, llm, dsl_data, error, exit_code, openai_calls,
                fallback_calls, pp_calls, validated, valid_ok, rendered, tf_runs,
                messages>>

----------------------------------------------------------------------------
(* SpecPP: _post_process_dsl applied once, then again to its own output *)

InitPP ==
    /\ PipelineIdle
    /\ prompt = ""
    /\ pc = "pp_in"
    /\ config \in PPConfigs
    /\ arg \in RawDocs
    /\ res1 = NoResult
    /\ res2 = NoResult

PPOnce ==
    /\ pc = "pp_in"
    /\ res1' = _post_process_dsl(arg, config)
    /\ pc' = "pp_once"
    /\ UNCHANGED <<config, prompt, arg, res2>>
    /\ PipelineUnchanged

PPTwice ==
    /\ pc = "pp_once"
    /\ res1.ok
    /\ res2' = _post_process_dsl(res1.val, config)
    /\ pc' = "pp_twice"
    /\ UNCHANGED <<config, prompt, arg, res1>>
    /\ PipelineUnchanged

NextPP == PPOnce \/ PPTwice

SpecPP == InitPP /\ [][NextPP]_vars

----------------------------------------------------------------------------
(* Claims about the post-processor (checked under SpecPP) *)

PPRan == pc \in {"pp_once", "pp_twice"}
ZoneConfigured == Truthy(config.default_zone)
IsDnsDoc(d) == Get(d, "intent") \in DnsIntents

\* C6: the post-processor never fails: for every raw document (any subset of
\* intent, zone_name, hostname present, any intent) and every configuration
\* it returns a document and raises nothing, a DNS-intent document lacking
\* both hostname and zone_name included.
C6_PostProcessNeverFails ==
    PPRan => res1.ok

\* C7: with a default zone configured the post-processor is idempotent: on
\* every document on which it succeeds, applying it to its own output
\* succeeds and returns that output unchanged, field for field.
C7_PostProcessIdempotent ==
    (pc = "pp_twice" /\ ZoneConfigured) => (res2.ok /\ res2.val = res1.val)

\* C7 witness: a DNS document whose hostname lay under another zone was
\* rebuilt by the first pass and left alone by the second.
C7_Witness ==
    /\ pc = "pp_twice" /\ ZoneConfigured /\ IsDnsDoc(arg)
    /\ "hostname" \in DOMAIN arg
    /\ arg.hostname = "foo.example.com"
    /\ config.default_zone = "foo.org"
    /\ res1.val.hostname = "foo.foo.org"
    /\ res2.val = res1.val

HasDot(h) == \E i \in 1..Len(h) : CharAt(h, i) = "."
UnderZone(h, z) == h = z \/ EndsWith(h, "." \o z)

\* C8: for a DNS intent with a default zone Z configured, the
\* output always has zone_name = Z and a hostname that is Z or ends with
\* ".Z".
C8_HostnameAlwaysUnderZone ==
    (PPRan /\ res1.ok /\ ZoneConfigured /\ IsDnsDoc(arg)) =>
        /\ res1.val.zone_name = config.default_zone
        /\ UnderZone(res1.val.hostname, config.default_zone)

----------------------------------------------------------------------------
(* SpecVal: validate_dsl applied to a document *)

RECURSIVE Repeat(_, _)
Repeat(c, n) == IF n = 0 THEN "" ELSE c \o Repeat(c, n - 1)

\* the dicts that hold key k with one of vals, and the one that lacks it
OptField(k, vals) == {EmptyDict} \cup {[f \in {k} |-> v] : v \in vals}

ValIntents == Intents \cup {"destroy_everything"}
ValZones == {"example.com", "Example.COM", "localhost", "-bad.com"}
ValHosts ==
    {"blog.example.com", "example.com", "API.Example.com", "localhost",
     "bad_host.example.com", "a..example.com", "api-.example.com",
     "blog.example.com\n"}
ValWorkerNames == {Repeat("a", n) : n \in {15, 62, 63, 64, 70}}
ValWorkers ==
    [name : ValWorkerNames, module : {TRUE}, compatibility_date : {"2024-01-01", "2024-1-1"}]
    \cup {[module |-> TRUE, compatibility_date |-> "2024-01-01"],
          [name |-> "api-example-com", module |-> TRUE]}
ValDnsRecords ==
    {[type |-> "TXT", content |-> "hello", ttl |-> 300, proxied |-> FALSE],
     [type |-> "CNAME"],
     [type |-> "SRV", content |-> "hello"]}
ValRoutings ==
    {[routing |-> [mode |-> "custom_domain"], bindings |-> [kv |-> <<>>, d1 |-> <<>>]]}

ValDocs ==
    {Merge(Merge(Merge(Merge(Merge(i, z), h), w), r), b) :
        i \in OptField("intent", ValIntents), z \in OptField("zone_name", ValZones),
        h \in OptField("hostname", ValHosts), w \in OptField("worker", ValWorkers),
        r \in OptField("dns_record", ValDnsRecords), b \in {EmptyDict} \cup ValRoutings}

NoConfig == [openai_api_key |-> None, default_zone |-> None, account_id |-> None]

InitVal ==
    /\ PipelineIdle
    /\ prompt = ""
    /\ pc = "val_in"
    /\ config = NoConfig
    /\ arg \in ValDocs
    /\ res1 = NoResult
    /\ res2 = NoResult

ValidateOnce ==
    /\ pc = "val_in"
    /\ res1' = validate_dsl(arg)
    /\ pc' = "val_done"
    /\ UNCHANGED <<config, prompt, arg, res2>>
    /\ PipelineUnchanged

\* dsl.py:48: the custom rules by themselves, on the same document
CustomRulesOnce ==
    /\ pc = "val_done"
    /\ res2' = _validate_custom_rules(arg)
    /\ pc' = "val_rules"
    /\ UNCHANGED <<config, prompt, arg, res1>>
    /\ PipelineUnchanged

NextVal == ValidateOnce \/ CustomRulesOnce

SpecVal == InitVal /\ [][NextVal]_vars

----------------------------------------------------------------------------
(* Claims about the validator (checked under SpecVal) *)

\* The label rules of the data model, stated on the labels themselves: a
\* non-empty dot-separated sequence of labels, each of 1 to 63 letters,
\* digits and hyphens, with no hyphen first or last; case is ignored.
LabelOk(l) ==
    /\ Len(l) >= 1 /\ Len(l) <= 63
    /\ \A k \in 1..Len(l) : IsAlnumHyphen(CharAt(l, k))
    /\ CharAt(l, 1) # "-" /\ CharAt(l, Len(l)) # "-"
FqdnOk(h) == LET ls == split(lower(h), ".") IN \A k \in 1..Len(ls) : LabelOk(ls[k])
DomainOk(z) == FqdnOk(z) /\ HasDot(z)
DateOk(s) ==
    /\ Len(s) = 10
    /\ \A k \in 1..10 : IF k \in {5, 8} THEN CharAt(s, k) = "-" ELSE IsDigit(CharAt(s, k))

\* a document of the data model: every field its intent requires is there
\* and every field that is there is well-formed
Conforms(d) ==
    /\ "intent" \in DOMAIN d /\ d.intent \in Intents
    /\ "zone_name" \in DOMAIN d /\ DomainOk(d.zone_name)
    /\ "hostname" \in DOMAIN d /\ FqdnOk(d.hostname)
    /\ d.intent = "create_worker_and_bind_domain" =>
           /\ "worker" \in DOMAIN d
           /\ {"name", "compatibility_date"} \subseteq DOMAIN d.worker
           /\ Len(d.worker.name) <= 63
           /\ DateOk(d.worker.compatibility_date)
    /\ d.intent \in DnsIntents =>
           /\ "dns_record" \in DOMAIN d
           /\ "type" \in DOMAIN d.dns_record
    /\ "dns_record" \in DOMAIN d =>
           /\ "type" \in DOMAIN d.dns_record
           /\ d.dns_record.type \in {"A", "AAAA", "CNAME", "TXT", "MX", "NS"}
    /\ "routing" \in DOMAIN d => d.routing.mode \in {"custom_domain", "route"}

IsWorkerDoc(d) == Get(d, "intent") = "create_worker_and_bind_domain"

\* a field every intent requires, or the worker of the worker intent, is missing
MissesCoreField(d) ==
    \/ {"intent", "zone_name", "hostname"} \ DOMAIN d # {}
    \/ IsWorkerDoc(d) /\ "worker" \notin DOMAIN d

IsBareDnsDoc(d) ==
    /\ DOMAIN d = {"intent", "zone_name", "hostname"}
    /\ d.intent = "create_dns_record"

\* a worker document with every field filled in
IsFullWorkerDoc(d) ==
    /\ DOMAIN d = {"intent", "zone_name", "hostname", "routing", "worker", "bindings"}
    /\ d.intent = "create_worker_and_bind_domain"
    /\ DOMAIN d.worker = {"name", "module", "compatibility_date"}
    /\ Len(d.worker.name) <= 63
    /\ DateOk(d.worker.compatibility_date)
    /\ d.routing.mode \in {"custom_domain", "route"}

----------------------------------------------------------------------------
(* config.py, tfexec.py, render.py: the operations the commands call *)

\* A plausible slip in config.py:84: "is None" for "not", which lets an
\* empty key through.
ValidateRequiredNoneOnly(cfg) ==
    IF cfg.openai_api_key = None
    THEN Raise("SystemExit: OpenAI API key is required but not configured.")
    ELSE Ok(cfg)

\* config.py:82-88: error_exit (sys.exit(1), utils.py:53-56) without a key
validate_required(cfg) ==
    IF ~Truthy(cfg.openai_api_key)
    THEN Raise("SystemExit: OpenAI API key is required but not configured.")
    ELSE Ok(cfg)

\* What one run of the terraform binary does: it exits with a code, runs
\* into the 5 minute timeout, or is not installed.
TfOutcomes ==
    [kind : {"exit"}, rc : {0, 1, 2}] \cup [kind : {"timeout", "notfound"}, rc : {0}]

\* tfexec.py:42-103.  An interactive command (apply or destroy without
\* -auto-approve) returns "" at line 70, before the exit code is looked at.
_run_terraform(args, o) ==
    LET interactive == args[1] \in {"apply", "destroy"}
                       /\ \A k \in 1..Len(args) : args[k] # "-auto-approve"
    IN  IF o.kind = "timeout" THEN Raise("Exception: timed out after 5 minutes")
        ELSE IF o.kind = "notfound" THEN Raise("Exception: Terraform not found in PATH")
        ELSE IF interactive THEN Ok([stdout |-> ""])
        ELSE IF args[1] = "plan" /\ o.rc = 2 THEN Ok([stdout |-> "stdout"])
        ELSE IF o.rc # 0 THEN Raise("Exception: Failed to run terraform")
        ELSE Ok([stdout |-> "stdout"])

\* render.py:88-117
_generate_tfvars(d, cfg, env) ==
    LET account_id == IF Truthy(cfg.account_id) THEN cfg.account_id ELSE env
    IN  IF {"zone_name", "hostname"} \ DOMAIN d # {} THEN Raise("KeyError")
        ELSE IF Get(d, "intent") = "create_worker_and_bind_domain"
                /\ ("worker" \notin DOMAIN d \/ "name" \notin DOMAIN d["worker"])
        THEN Raise("KeyError")
        ELSE IF ~Truthy(account_id)
        THEN Raise("SystemExit: Cloudflare account ID is required but not configured.")
        ELSE Ok([zone_name   |-> d["zone_name"],
                 hostname    |-> d["hostname"],
                 worker_name |-> IF Get(d, "intent") = "create_worker_and_bind_domain"
                                 THEN d["worker"]["name"]
                                 ELSE DeriveWorkerName(d["hostname"]),
                 account_id  |-> account_id])

\* render.py:13-85.  tpl is what the templates directory does: "ok",
\* "missing" (error_exit at line 39) or "error" (a template raises).
render_terraform(d, cfg, env, tpl) ==
    IF tpl = "missing" THEN Raise("SystemExit: Templates directory not found")
    ELSE IF tpl = "error" THEN Raise("Exception: template")
    ELSE _generate_tfvars(d, cfg, env)

----------------------------------------------------------------------------
(* Spec: one invocation of ts plan, ts dryrun or ts apply (cli.py) *)

Commands == {"plan", "dryrun", "apply"}
Prompts == {"Create DNS record for blog.other.com", "Add KV storage for cache.example.com"}
Configs ==
    [openai_api_key : {None, "", "sk-test"},
     default_zone   : {None, "example.com", "foo.org"},
     account_id     : {None, "acct-1"}]
Environs == {"", "env-acct"}

\* the JSON documents the model's response may hold
ModelHosts == {"@", "foo", "api.example.com", "foo.other.com", "bad_host.com"}
ModelZones == {"@", "example.com"}
ModelDocs ==
    {Merge(Merge(Merge(i, z), h), e) :
        i \in OptField("intent", Intents), z \in OptField("zone_name", ModelZones),
        h \in OptField("hostname", ModelHosts),
        e \in {EmptyDict, WorkerFields, DnsRecordFields}}
    \cup {NotADict}

\* what _call_openai (llm.py:48-80) does: the request fails (line 80), the
\* response is no JSON (line 78), or json.loads returns its value
OpenAIOutcomes ==
    {Raise("Exception: OpenAI API error"), Raise("Exception: Invalid JSON response from OpenAI")}
    \cup {Ok(d) : d \in ModelDocs}

Init ==
    /\ cmd \in Commands
    /\ approve \in (IF cmd = "apply" THEN BOOLEAN ELSE {FALSE})
    /\ prompt \in (IF cmd = "apply" THEN {""} ELSE Prompts)
    /\ config \in Configs
    /\ environ \in Environs
    /\ pc = "load_config"
    /\ llm = NoResult /\ dsl_data = NoDoc /\ error = "" /\ exit_code = 0
    /\ openai_calls = 0 /\ fallback_calls = 0 /\ pp_calls = 0
    /\ validated = NoDoc /\ valid_ok = FALSE /\ rendered = NoDoc
    /\ tf_runs = <<>> /\ messages = {}
    /\ arg = NoDoc /\ res1 = NoResult /\ res2 = NoResult

Inputs == <<cmd, approve, config, environ, prompt, arg, res1, res2>>

\* utils.py:53-56: error_exit prints the message and exits with code 1
ErrorExit(message) ==
    /\ error' = message
    /\ exit_code' = 1
    /\ pc' = "exited"

\* What a command's `except Exception` (cli.py:74-75) makes of something
\* raised in its try block: a SystemExit, raised by an error_exit further
\* down, is no Exception and passes with its own message; anything else is
\* reported under the command's prefix.  The exit status is 1 either way.
ExitMessage(prefix, exc) ==
    IF Slice(exc, 1, 12) = "SystemExit: " THEN Slice(exc, 13, Len(exc))
    ELSE prefix \o exc

\* the command's function returns: the process exits with code 0
Return ==
    /\ exit_code' = 0
    /\ pc' = "exited"
    /\ UNCHANGED error

\* cli.py:51 (also 102, 151), config.py:28-48: the file is read, or it
\* cannot be parsed and load() calls error_exit
LoadConfig ==
    /\ pc = "load_config"
    /\ \/ pc' = "validate_required" /\ UNCHANGED <<error, exit_code>>
       \/ ErrorExit("Failed to load configuration")
    /\ UNCHANGED <<Inputs, llm, dsl_data, openai_calls, fallback_calls, pp_calls,
                   validated, valid_ok, rendered, tf_runs, messages>>

\* cli.py:52 (also 103, 152)
ValidateRequired ==
    /\ pc = "validate_required"
    /\ IF validate_required(config).ok
       THEN /\ pc' = IF cmd = "apply" THEN "apply_dir" ELSE "call_openai"
            /\ UNCHANGED <<error, exit_code>>
       ELSE ErrorExit("OpenAI API key is required but not configured.")
    /\ UNCHANGED <<Inputs, llm, dsl_data, openai_calls, fallback_calls, pp_calls,
                   validated, valid_ok, rendered, tf_runs, messages>>

\* llm.py:38: to_dsl calls _call_openai, which calls the service once
CallOpenAI ==
    /\ pc = "call_openai"
    /\ openai_calls' = openai_calls + 1
    /\ llm' \in OpenAIOutcomes
    /\ pc' = IF llm'.ok THEN "post_process" ELSE "fallback"
    /\ UNCHANGED <<Inputs, dsl_data, error, exit_code, fallback_calls, pp_calls,
                   validated, valid_ok, rendered, tf_runs, messages>>

\* llm.py:40-41: the model's document is post-processed and returned; an
\* exception of the post-processor is caught at line 42 like any other
PostProcess ==
    /\ pc = "post_process"
    /\ pp_calls' = pp_calls + 1
    /\ LET r == _post_process_dsl(llm.val, config)
       IN  IF r.ok
           THEN dsl_data' = r.val /\ pc' = "validate"
           ELSE UNCHANGED dsl_data /\ pc' = "fallback"
    /\ UNCHANGED <<Inputs, llm, error, exit_code, openai_calls, fallback_calls,
                   validated, valid_ok, rendered, tf_runs, messages>>

\* llm.py:42-45: the except branch returns what _fallback_parser returns, as
\* it is; what _fallback_parser raises leaves to_dsl and is caught by the
\* command (cli.py:60-61, 160-161), which calls error_exit
Fallback ==
    /\ pc = "fallback"
    /\ fallback_calls' = fallback_calls + 1
    /\ LET r == _fallback_parser(prompt, config)
       IN  IF r.ok
           THEN /\ dsl_data' = r.val /\ pc' = "validate"
                /\ UNCHANGED <<error, exit_code>>
           ELSE /\ ErrorExit("Failed to convert prompt to DSL: " \o r.exc)
                /\ UNCHANGED dsl_data
    /\ UNCHANGED <<Inputs, llm, openai_calls, pp_calls,
                   validated, valid_ok, rendered, tf_runs, messages>>

\* A plausible slip in cli.py:67-68: the failure is reported and the command
\* goes on.
AfterValidateWarnOnly(r) == "render"

\* cli.py:64-68 (also 164-168): where the command goes after validate_dsl
AfterValidate(r) == IF r.ok THEN "render" ELSE "exit"

ValidateDsl ==
    /\ pc = "validate"
    /\ validated' = dsl_data
    /\ LET r == validate_dsl(dsl_data)
       IN  /\ valid_ok' = r.ok
           /\ IF AfterValidate(r) = "render"
              THEN pc' = "render" /\ UNCHANGED <<error, exit_code>>
              ELSE ErrorExit("DSL validation failed: " \o r.exc)
    /\ UNCHANGED <<Inputs, llm, dsl_data, openai_calls, fallback_calls, pp_calls,
                   rendered, tf_runs, messages>>

\* cli.py:71-75 and, for dryrun, 171-178
Render ==
    /\ pc = "render"
    /\ \E tpl \in {"ok", "missing", "error"} :
          LET r == render_terraform(dsl_data, config, environ, tpl)
          IN  IF r.ok
              THEN /\ rendered' = dsl_data
                   /\ IF cmd = "dryrun"
                      THEN messages' = messages \cup {"Dry run completed!"} /\ Return
                      ELSE /\ pc' = "tf_init"
                           /\ UNCHANGED <<messages, error, exit_code>>
              ELSE /\ ErrorExit(ExitMessage("Failed to render Terraform files: ", r.exc))
                   /\ UNCHANGED <<rendered, messages>>
    /\ UNCHANGED <<Inputs, llm, dsl_data, openai_calls, fallback_calls, pp_calls,
                   validated, valid_ok, tf_runs>>

\* one call of TerraformExecutor._run_terraform, recorded
RunTerraform(args, o) == tf_runs' = Append(tf_runs, [args |-> args, outcome |-> o])

\* cli.py:79-81, tfexec.py:20-22
TfInit ==
    /\ pc = "tf_init"
    /\ \E o \in TfOutcomes :
          /\ RunTerraform(<<"init", "-upgrade">>, o)
          /\ IF _run_terraform(<<"init", "-upgrade">>, o).ok
             THEN pc' = "tf_plan" /\ UNCHANGED <<error, exit_code>>
             ELSE ErrorExit("Terraform plan failed")
    /\ UNCHANGED <<Inputs, llm, dsl_data, openai_calls, fallback_calls, pp_calls,
                   validated, valid_ok, rendered, messages>>

\* cli.py:83-94, tfexec.py:24-26
TfPlan ==
    /\ pc = "tf_plan"
    /\ \E o \in TfOutcomes :
          /\ RunTerraform(<<"plan", "-detailed-exitcode">>, o)
          /\ IF _run_terraform(<<"plan", "-detailed-exitcode">>, o).ok
             THEN messages' = messages \cup {"Plan completed successfully!"} /\ Return
             ELSE ErrorExit("Terraform plan failed") /\ UNCHANGED messages
    /\ UNCHANGED <<Inputs, llm, dsl_data, openai_calls, fallback_calls, pp_calls,
                   validated, valid_ok, rendered>>

\* cli.py:105-122: the run directory is found, or error_exit
ApplyDir ==
    /\ pc = "apply_dir"
    /\ \/ /\ pc' = IF approve THEN "tf_apply" ELSE "apply_plan"
          /\ UNCHANGED <<error, exit_code>>
       \/ \E m \in {"No terraform directory found. Run 'ts plan' first.",
                   "No previous runs found. Run 'ts plan' first.",
                   "Working directory does not exist"} : ErrorExit(m)
    /\ UNCHANGED <<Inputs, llm, dsl_data, openai_calls, fallback_calls, pp_calls,
                   validated, valid_ok, rendered, tf_runs, messages>>

\* cli.py:125-130: without --approve the plan is run and read first; the
\* user is asked when it mentions a destroy or a delete
ApplyPlan ==
    /\ pc = "apply_plan"
    /\ \E o \in TfOutcomes, destructive \in BOOLEAN :
          /\ RunTerraform(<<"plan", "-detailed-exitcode">>, o)
          /\ IF _run_terraform(<<"plan", "-detailed-exitcode">>, o).ok
             THEN /\ pc' = IF destructive THEN "apply_confirm" ELSE "tf_apply"
                  /\ UNCHANGED <<error, exit_code>>
             ELSE ErrorExit("Terraform apply failed")
    /\ UNCHANGED <<Inputs, llm, dsl_data, openai_calls, fallback_calls, pp_calls,
                   validated, valid_ok, rendered, messages>>

\* cli.py:128-130: click.confirm
ApplyConfirm ==
    /\ pc = "apply_confirm"
    /\ \/ pc' = "tf_apply" /\ UNCHANGED <<error, exit_code>>
       \/ Return
    /\ UNCHANGED <<Inputs, llm, dsl_data, openai_calls, fallback_calls, pp_calls,
                   validated, valid_ok, rendered, tf_runs, messages>>

\* tfexec.py:28-33
ApplyArgs == IF approve THEN <<"apply", "-auto-approve">> ELSE <<"apply">>

\* cli.py:132-143
TfApply ==
    /\ pc = "tf_apply"
    /\ \E o \in TfOutcomes :
          /\ RunTerraform(ApplyArgs, o)
          /\ IF _run_terraform(ApplyArgs, o).ok
             THEN messages' = messages \cup {"Apply completed successfully!"} /\ Return
             ELSE ErrorExit("Terraform apply failed") /\ UNCHANGED messages
    /\ UNCHANGED <<Inputs, llm, dsl_data, openai_calls, fallback_calls, pp_calls,
                   validated, valid_ok, rendered>>

Next ==
    \/ LoadConfig \/ ValidateRequired
    \/ CallOpenAI \/ PostProcess \/ Fallback
    \/ ValidateDsl \/ Render \/ TfInit \/ TfPlan
    \/ ApplyDir \/ ApplyPlan \/ ApplyConfirm \/ TfApply

Spec == Init /\ [][Next]_vars

----------------------------------------------------------------------------
(* SpecFB: _fallback_parser applied to a prompt *)

MaxWords == 2
Words == {"delete", "record", "kv", "db", "txt", "@", "host", "api.example.com", "content"}

\* the prompts of n words, blank-separated
RECURSIVE PromptsOf(_)
PromptsOf(n) ==
    IF n = 0 THEN {""}
    ELSE Words \cup {p \o " " \o w : p \in PromptsOf(n - 1) \ {""}, w \in Words}

FBPrompts == UNION {PromptsOf(n) : n \in 0..MaxWords}

InitFB ==
    /\ PipelineIdle
    /\ prompt \in FBPrompts
    /\ config \in PPConfigs
    /\ pc = "fb_in"
    /\ arg = NoDoc /\ res1 = NoResult /\ res2 = NoResult

FallbackOnce ==
    /\ pc = "fb_in"
    /\ res1' = _fallback_parser(prompt, config)
    /\ pc' = "fb_done"
    /\ PipelineUnchanged
    /\ UNCHANGED <<config, prompt, arg, res2>>

NextFB == FallbackOnce
SpecFB == InitFB /\ [][NextFB]_vars

\* C1: for every prompt, the empty one and one with no keyword and no domain
\* included, the rule-based interpreter returns without raising, and what it
\* returns is a document with an intent, a zone_name and a hostname.
C1_FallbackTotal ==
    pc = "fb_done" =>
        /\ res1.ok
        /\ {"intent", "zone_name", "hostname"} \subseteq DOMAIN res1.val

----------------------------------------------------------------------------
(* Claims checked under Spec *)

ToDslEntered == openai_calls > 0
ModelPathRaised ==
    /\ llm # NoResult
    /\ pc # "post_process"
    /\ ~llm.ok \/ ~_post_process_dsl(llm.val, config).ok
KeyMissing == ~Truthy(config.openai_api_key)
KeyMessage == "OpenAI API key is required but not configured."

\* C2: every document to_dsl hands on has been through the post-processor,
\* whichever path produced it: the validator sees a document only after
\* _post_process_dsl was applied to it, and a run whose model path failed
\* still brings the validator the post-processed document of the fallback.
C2_EveryDocumentPostProcessed ==
    /\ validated # NoDoc =>
          /\ pp_calls > 0
          /\ fallback_calls > 0 =>
                validated = _post_process_dsl(FallbackBody(prompt, config), config).val
    /\ (fallback_calls > 0 /\ pc = "exited") => validated # NoDoc

\* C3: to_dsl calls the model service at most once and never retries, runs
\* the fallback interpreter exactly when the model path raised, and always
\* returns a document.
C3_OneCallThenFallbackAlwaysReturns ==
    /\ openai_calls <= 1
    /\ fallback_calls <= 1
    /\ (ToDslEntered /\ pc # "post_process" /\ pc # "fallback") =>
          /\ (fallback_calls = 1) = ModelPathRaised
          /\ dsl_data # NoDoc

\* C4: when the API key is missing or empty, validate_required ends the
\* process with a non-zero status before any step of the pipeline: no
\* service call, no fallback, no validation, no rendering, no terraform
\* run.  With a key it lets the command go on.
C4_NoKeyNoPipeline ==
    /\ KeyMissing =>
          /\ openai_calls = 0 /\ fallback_calls = 0 /\ pp_calls = 0
          /\ validated = NoDoc /\ rendered = NoDoc
          /\ tf_runs = <<>> /\ messages = {}
          /\ pc \in {"load_config", "validate_required", "exited"}
          /\ pc = "exited" => exit_code # 0
    /\ ~KeyMissing => error # KeyMessage

C4_Witness ==
    /\ config.openai_api_key = ""
    /\ pc = "exited" /\ error = KeyMessage /\ exit_code = 1

\* C5: plan and dryrun render only a document that passed validation, and
\* plan runs terraform only after rendering it; a document that fails
\* validation ends the command with status 1, nothing rendered, nothing
\* run and no message of success.
C5_ValidateRenderTerraformInOrder ==
    cmd \in {"plan", "dryrun"} =>
        /\ rendered # NoDoc => (valid_ok /\ rendered = validated)
        /\ tf_runs # <<>> => (cmd = "plan" /\ rendered # NoDoc)
        /\ (validated # NoDoc /\ ~valid_ok) =>
              /\ pc = "exited" /\ exit_code = 1
              /\ rendered = NoDoc /\ tf_runs = <<>> /\ messages = {}

C5_Witness ==
    /\ cmd = "plan" /\ pc = "exited" /\ exit_code = 0
    /\ valid_ok /\ rendered = validated /\ Len(tf_runs) = 2
    /\ "Plan completed successfully!" \in messages

----------------------------------------------------------------------------
(* Further claims about the validator (checked under SpecVal) *)

NameLengthMessage == "ValueError: Worker name must be 63 characters or less"
WorkerNameOf(d) == GetOr(d.worker, "name", "")

\* C11: for a create_worker_and_bind_domain document with a worker, the
\* validator raises the failure of the name-length rule whenever worker.name
\* is longer than 63 characters, and the name-length rule never rejects a
\* name of 63 characters or fewer.
C11_NameLengthRule ==
    (pc = "val_rules" /\ IsWorkerDoc(arg) /\ "worker" \in DOMAIN arg) =>
        /\ Len(WorkerNameOf(arg)) > 63 =>
              /\ res2 = Raise(NameLengthMessage)
              /\ SchemaAccepts(arg) => res1 = Raise(NameLengthMessage)
        /\ Len(WorkerNameOf(arg)) <= 63 =>
              /\ res2.exc # NameLengthMessage
              /\ res1.exc # NameLengthMessage

\* C11 witness: the document of test_invalid_worker_name, a name of 70
\* characters in an otherwise valid document, was rejected by the rule.
C11_Witness ==
    /\ pc = "val_rules" /\ IsWorkerDoc(arg) /\ "worker" \in DOMAIN arg
    /\ Len(WorkerNameOf(arg)) = 70
    /\ Get(arg.worker, "compatibility_date") = "2024-01-01"
    /\ Get(arg, "hostname") = "blog.example.com"
    /\ Get(arg, "zone_name") = "example.com"
    /\ res1 = Raise(NameLengthMessage)

----------------------------------------------------------------------------
(* Further claims about the fallback interpreter (checked under SpecFB) *)

FallbackRan == pc = "fb_done"
ZoneOrExample(cfg) == IF Truthy(cfg.default_zone) THEN cfg.default_zone ELSE "example.com"

\* the worker name the tfvars generator writes for hostname h in a document
\* without a worker of its own
TfvarsWorkerName(h) ==
    _generate_tfvars([intent |-> "create_kv_namespace", zone_name |-> h, hostname |-> h],
                     [openai_api_key |-> "sk-test", default_zone |-> None,
                      account_id |-> "acct-1"], "").val.worker_name

\* C12: the worker name the fallback interpreter derives is the hostname with
\* every "." and "_" replaced by "-", cut to its first 63 characters: its
\* length is min(len(hostname), 63), it passes the validator's length rule,
\* and the tfvars generator derives the same name from the same hostname.
C12_WorkerNameDerived ==
    FallbackRan =>
        /\ res1.ok
        /\ res1.val.intent = "create_worker_and_bind_domain" =>
              LET h    == res1.val.hostname
                  name == res1.val.worker.name
              IN  /\ name = Slice(replace(replace(h, ".", "-"), "_", "-"), 1, 63)
                  /\ Len(name) = Min(Len(h), 63)
                  /\ ~WorkerNameTooLong(name)
                  /\ name = TfvarsWorkerName(h)

\* the table of the specification: independent rules, the first match wins
TableIntent(prompt_lower) ==
    IF /\ AnyWordIn({"eliminar", "delete", "borrar", "quitar", "remove"}, prompt_lower)
       /\ AnyWordIn({"dns", "record", "txt", "cname", "a record"}, prompt_lower)
    THEN "delete_dns_record"
    ELSE IF AnyWordIn({"dns", "record", "cname", "a record"}, prompt_lower)
    THEN "create_dns_record"
    ELSE IF AnyWordIn({"kv", "namespace", "storage"}, prompt_lower)
    THEN "create_kv_namespace"
    ELSE IF AnyWordIn({"d1", "database", "db"}, prompt_lower)
    THEN "create_d1_database"
    ELSE "create_worker_and_bind_domain"

\* C13: the fallback interpreter classifies the intent by an ordered table of
\* independent keyword rules, the first matching rule winning; a prompt with
\* a deletion keyword and no record keyword is classified by the remaining
\* rules, so a deletion keyword with a KV keyword gives create_kv_namespace.
C13_IntentByOrderedRules ==
    FallbackRan =>
        /\ res1.ok
        /\ res1.val.intent = TableIntent(lower(prompt))

\* C14: the fallback interpreter's hostname is the default zone (or
\* "example.com") when the prompt contains "@", even if a domain was found;
\* otherwise the first domain the patterns find; otherwise "app." and the
\* default zone (or "app.example.com").
C14_HostnamePrecedence ==
    FallbackRan =>
        /\ res1.ok
        /\ res1.val.hostname =
              IF Contains(prompt, "@") THEN ZoneOrExample(config)
              ELSE IF ExtractHostname(lower(prompt)) # None
              THEN ExtractHostname(lower(prompt))
              ELSE "app." \o ZoneOrExample(config)

\* C15: in every document the fallback interpreter returns, zone_name is the
\* last two dot-separated labels of hostname (the whole hostname when it has
\* fewer than two), so hostname equals zone_name or ends with "." zone_name.
C15_ZoneIsLastTwoLabels ==
    FallbackRan =>
        /\ res1.ok
        /\ LET h     == res1.val.hostname
               parts == split(h, ".")
           IN  /\ res1.val.zone_name =
                     IF Len(parts) >= 2
                     THEN parts[Len(parts) - 1] \o "." \o parts[Len(parts)]
                     ELSE h
               /\ UnderZone(h, res1.val.zone_name)

----------------------------------------------------------------------------
(* Further claims about the pipeline (checked under Spec) *)

\* C16: every document the validator accepts in a run of the pipeline has a
\* hostname consistent with its zone_name: the hostname equals the zone_name
\* or ends with "." and the zone_name, whichever interpreter produced the
\* document, for every intent, with or without a default zone.
C16_AcceptedHostnameUnderZone ==
    valid_ok => UnderZone(validated.hostname, validated.zone_name)

----------------------------------------------------------------------------
(* The semantic rules on hostname and zone_name (checked under SpecVal) *)

\* C17: the semantic check accepts a present hostname exactly when it is a
\* non-empty dot-separated sequence of labels of 1 to 63 letters, digits and
\* hyphens with no hyphen first or last, case ignored; a present zone_name
\* exactly when it satisfies the same rules and contains a dot; and the
\* rules leave an absent hostname or zone_name alone.  (Stated for the
\* documents the worker rules do not apply to.)
C17_LabelRulesOnPresentFields ==
    (pc = "val_rules" /\ ~IsWorkerDoc(arg)) =>
        res2.ok = (/\ "hostname" \in DOMAIN arg => FqdnOk(arg.hostname)
                   /\ "zone_name" \in DOMAIN arg => DomainOk(arg.zone_name))

----------------------------------------------------------------------------
(* config.py: Config.save and Config.load *)

\* config.py:12-19: a Config as the dataclass constructs it
DefaultModelId == "gpt-4o-mini"
FreshConfig ==
    [openai_api_key |-> None, cloudflare_api_token |-> None, account_id |-> None,
     default_zone |-> None, model_id |-> DefaultModelId]

\* toml.dump (config.py:74) writes a str as a basic string: in double
\* quotes, a quote or a backslash preceded by a backslash
RECURSIVE EscapeFrom(_, _)
EscapeFrom(s, i) ==
    IF i > Len(s) THEN ""
    ELSE (IF CharAt(s, i) \in {"\"", "\\"} THEN "\\" ELSE "")
         \o CharAt(s, i) \o EscapeFrom(s, i + 1)

toml_string(s) == "\"" \o EscapeFrom(s, 1) \o "\""

\* toml.load (config.py:34) reads a basic string back: the quotes go, and
\* a backslash stands for the character after it
RECURSIVE UnescapeFrom(_, _)
UnescapeFrom(t, i) ==
    IF i > Len(t) THEN ""
    ELSE IF CharAt(t, i) = "\\"
         THEN Slice(t, i + 1, i + 1) \o UnescapeFrom(t, i + 2)
         ELSE CharAt(t, i) \o UnescapeFrom(t, i + 1)

toml_value(t) == UnescapeFrom(Slice(t, 2, Len(t) - 1), 1)

\* the text of a file of tables of strings, and the tables of such a text
toml_dump(data) ==
    [s \in DOMAIN data |-> [k \in DOMAIN data[s] |-> toml_string(data[s][k])]]
toml_load(text) ==
    [s \in DOMAIN text |-> [k \in DOMAIN text[s] |-> toml_value(text[s][k])]]

\* config.py:65-66: {k: v for k, v in d.items() if v is not None}
DropNone(d) == [k \in {j \in DOMAIN d : d[j] # None} |-> d[k]]

\* config.py:52-66
config_data(self) ==
    [auth     |-> DropNone([openai_api_key       |-> self.openai_api_key,
                            cloudflare_api_token |-> self.cloudflare_api_token]),
     defaults |-> DropNone([account_id |-> self.account_id,
                            zone_name  |-> self.default_zone,
                            model_id   |-> self.model_id])]

\* A plausible slip in config.py:44: the field's name for the key's.
LoadFieldsByFieldName(self, auth, defaults) ==
    [openai_api_key       |-> Get(auth, "openai_api_key"),
     cloudflare_api_token |-> Get(auth, "cloudflare_api_token"),
     account_id           |-> Get(defaults, "account_id"),
     default_zone         |-> Get(defaults, "default_zone"),
     model_id             |-> GetOr(defaults, "model_id", self.model_id)]

\* config.py:38-45
LoadFields(self, auth, defaults) ==
    [openai_api_key       |-> Get(auth, "openai_api_key"),
     cloudflare_api_token |-> Get(auth, "cloudflare_api_token"),
     account_id           |-> Get(defaults, "account_id"),
     default_zone         |-> Get(defaults, "zone_name"),
     model_id             |-> GetOr(defaults, "model_id", self.model_id)]

\* config.py:34-45: data.get("auth", {}) and data.get("defaults", {})
LoadData(self, data) ==
    LoadFields(self, GetOr(data, "auth", EmptyDict), GetOr(data, "defaults", EmptyDict))

\* config.py:28-45: a Config stays as it is when there is no file
load(self, file) ==
    IF ~file.exists THEN self ELSE LoadData(self, toml_load(file.text))

\* utils.py:76: os.chmod(file_path, 0o600)
SecureMode == 384
\* the mode open(..., 'w') creates a file with: 0o644, 0o664 or 0o600,
\* as the umask has it
CreatedModes == {420, 436, 384}

NoFile == [exists |-> FALSE, text |-> EmptyDict, mode |-> 0]
\* config.py:73-74: the file is created or truncated, and written
Written(file, self, created) ==
    [exists |-> TRUE, text |-> toml_dump(config_data(self)),
     mode |-> IF file.exists THEN file.mode ELSE created]
\* utils.py:74-76
secure_file_permissions(file) == [file EXCEPT !.mode = SecureMode]

----------------------------------------------------------------------------
(* SpecCfg: a Config is saved, and the file is loaded into a fresh Config *)

CfgKeys == {None, "", "sk-test", "sk\"q\\"}
CfgTokens == {None, "test-token"}
CfgAccounts == {None, "", "test-account"}
CfgZones == {None, "example.com"}
CfgModels == {"gpt-4o-mini", "gpt-4o", ""}
SavedConfigs ==
    [openai_api_key : CfgKeys, cloudflare_api_token : CfgTokens,
     account_id : CfgAccounts, default_zone : CfgZones, model_id : CfgModels]

\* what config.toml holds before: nothing, or an earlier save that the
\* user has made readable since
OldConfig ==
    [openai_api_key |-> "sk-old", cloudflare_api_token |-> "old-token",
     account_id |-> "old-account", default_zone |-> "old.org", model_id |-> "gpt-old"]
OldFiles == {NoFile, Written(NoFile, OldConfig, 420)}

CfgUnchanged ==
    UNCHANGED <<cmd, approve, environ, prompt, llm, dsl_data, openai_calls,
                fallback_calls, pp_calls, validated, valid_ok, rendered, tf_runs,
                messages>>

\* config: the Config that is saved; arg: config.toml; res1: what save()
\* did; res2: the fresh Config after load()
InitCfg ==
    /\ PipelineIdle
    /\ prompt = ""
    /\ pc = "cfg_in"
    /\ config \in SavedConfigs
    /\ arg \in OldFiles
    /\ res1 = NoResult
    /\ res2 = NoResult

\* config.py:50-80.  mkdir or open raises and nothing is written; or the
\* file is written and os.chmod raises; or save() returns.
Save ==
    /\ pc = "cfg_in"
    /\ \/ /\ arg' = arg
          /\ res1' = Raise("OSError")
          /\ ErrorExit("Failed to save configuration: OSError")
       \/ /\ \E created \in CreatedModes : arg' = Written(arg, config, created)
          /\ res1' = Raise("PermissionError")
          /\ ErrorExit("Failed to save configuration: PermissionError")
       \/ /\ \E created \in CreatedModes :
                arg' = secure_file_permissions(Written(arg, config, created))
          /\ res1' = Ok(None)
          /\ pc' = "cfg_saved"
          /\ UNCHANGED <<error, exit_code>>
    /\ UNCHANGED <<config, res2>>
    /\ CfgUnchanged

\* config.py:95-99 (load_config): Config() and load(), before or after a save
Load ==
    /\ pc \in {"cfg_in", "cfg_saved"}
    /\ res2' = Ok(load(FreshConfig, arg))
    /\ pc' = "cfg_loaded"
    /\ UNCHANGED <<config, arg, res1, error, exit_code>>
    /\ CfgUnchanged

NextCfg == Save \/ Load

SpecCfg == InitCfg /\ [][NextCfg]_vars

\* C18: save() and then load() into a fresh Config is a round trip: the
\* loaded Config equals the saved one in all five fields, whichever of the
\* four optional fields are None, and once save() has returned config.toml
\* has mode 0600.
C18_SaveLoadRoundTrip ==
    /\ (pc = "cfg_loaded" /\ res1.ok) => res2.val = config
    /\ res1.ok => (arg.exists /\ arg.mode = SecureMode)

\* a Config with None fields and a key to escape has gone through an
\* existing, readable file and come back
C18_Witness ==
    /\ pc = "cfg_loaded" /\ res1.ok
    /\ config.openai_api_key = "sk\"q\\"
    /\ config.account_id = None /\ config.default_zone = "example.com"
    /\ res2.val = config
    /\ arg.mode = SecureMode

----------------------------------------------------------------------------
(* The order of the validator's rules (checked under SpecVal) *)

\* the six rules in the order claimed, each with the error that names it
RuleMessages ==
    <<"ValueError: DSL validation failed",
      "ValueError: Worker configuration is required",
      NameLengthMessage,
      "ValueError: Worker compatibility_date must be in YYYY-MM-DD format",
      "ValueError: Invalid hostname format",
      "ValueError: Invalid zone_name format">>

HasWorker(d) == IsWorkerDoc(d) /\ "worker" \in DOMAIN d

\* document d violates rule n, whatever the other rules say
Violates(d, n) ==
    CASE n = 1 -> ~SchemaAccepts(d)
      [] n = 2 -> IsWorkerDoc(d) /\ "worker" \notin DOMAIN d
      [] n = 3 -> HasWorker(d) /\ Len(WorkerNameOf(d)) > WorkerNameMax
      [] n = 4 -> HasWorker(d)
                  /\ ~_is_valid_date_format(GetOr(d.worker, "compatibility_date", ""))
      [] n = 5 -> ~_is_valid_hostname(GetOr(d, "hostname", ""))
      [] n = 6 -> ~_is_valid_domain(GetOr(d, "zone_name", ""))

ViolatedRules(d) == {n \in 1..Len(RuleMessages) : Violates(d, n)}

\* C19: validate_dsl goes through its rules in the order schema, worker
\* present, worker.name length, worker.compatibility_date, hostname,
\* zone_name: it succeeds only if no rule is violated, and otherwise the
\* error is that of the first violated rule, so that a schema violation is
\* reported whatever the semantic rules would say.
C19_FirstViolatedRuleReported ==
    pc # "val_in" =>
        IF ViolatedRules(arg) = {}
        THEN res1.ok
        ELSE ~res1.ok /\ res1.exc = RuleMessages[Least(ViolatedRules(arg))]

\* a document the schema accepts violates the name, the hostname and the
\* zone rule, and the name rule is the one reported
C19_Witness ==
    /\ pc = "val_rules"
    /\ {3, 5, 6} \subseteq ViolatedRules(arg)
    /\ Least(ViolatedRules(arg)) = 3
    /\ res1.exc = NameLengthMessage

\* a document the schema rejects, which the semantic rules alone reject too
C19_SchemaFirstSeen ==
    /\ pc = "val_rules"
    /\ 1 \in ViolatedRules(arg)
    /\ ~res2.ok
    /\ res1.exc = RuleMessages[1]

----------------------------------------------------------------------------
(* Terraform's exit codes (checked under Spec) *)

\* the run exited with code 0, or it is a plan that exited with code 2
ExitedClean(run) ==
    /\ run.outcome.kind = "exit"
    /\ \/ run.outcome.rc = 0
       \/ run.args[1] = "plan" /\ run.outcome.rc = 2

\* C20: every Terraform command relays its exit code: a command is followed
\* by another one, or by the success message of its command, only if it
\* exited with code 0 (or is a plan that exited with code 2); so that
\* 'Apply completed successfully!' is printed only when terraform apply
\* exited with code 0.
C20_ExitCodesRelayed ==
    /\ \A k \in 1..Len(tf_runs) - 1 : ExitedClean(tf_runs[k])
    /\ "Plan completed successfully!" \in messages => ExitedClean(tf_runs[Len(tf_runs)])
    /\ "Apply completed successfully!" \in messages =>
           /\ tf_runs[Len(tf_runs)].args[1] = "apply"
           /\ tf_runs[Len(tf_runs)].outcome = [kind |-> "exit", rc |-> 0]

----------------------------------------------------------------------------
(* What the post-processor leaves alone (checked under SpecPP) *)

\* documents d and e hold the same keys with the same values, the keys in
\* `keys` aside
SameOutside(d, e, keys) ==
    /\ DOMAIN d \ keys = DOMAIN e \ keys
    /\ \A k \in DOMAIN d \ keys : d[k] = e[k]

\* what the claim allows without a default zone: "@" becomes "example.com"
RootZoneAsExample(d) ==
    IF Get(d, "zone_name") = "@" THEN SetKey(d, "zone_name", "example.com") ELSE d
\* and a DNS document without hostname gets its zone_name as hostname
HostnameFromZone(d) ==
    IF IsDnsDoc(d) /\ "hostname" \notin DOMAIN d
    THEN SetKey(d, "hostname", d["zone_name"])
    ELSE d

\* C21: the post-processor changes zone_name and hostname only, whatever
\* the document and the configuration.  For an intent that is no DNS intent
\* the hostname stays too, and zone_name changes only if it was "@" or
\* absent.  Without a default zone nothing changes but a zone_name of "@",
\* which becomes "example.com", and the missing hostname of a DNS document,
\* which becomes the zone_name.
C21_OnlyZoneAndHostnameChange ==
    (PPRan /\ res1.ok) =>
        /\ SameOutside(arg, res1.val, {"zone_name", "hostname"})
        /\ ~IsDnsDoc(arg) =>
               /\ SameOutside(arg, res1.val, {"zone_name"})
               /\ ("zone_name" \in DOMAIN arg /\ arg["zone_name"] # "@") => res1.val = arg
        /\ ~ZoneConfigured => res1.val = HostnameFromZone(RootZoneAsExample(arg))

\* a DNS document with a dns_record had its zone and its hostname rewritten,
\* and kept its intent and its dns_record
C21_Witness ==
    /\ pc = "pp_once" /\ res1.ok /\ ZoneConfigured /\ IsDnsDoc(arg)
    /\ {"zone_name", "hostname", "dns_record"} \subseteq DOMAIN arg
    /\ res1.val["zone_name"] # arg["zone_name"]
    /\ res1.val["hostname"] # arg["hostname"]
    /\ res1.val["dns_record"] = arg["dns_record"]
    /\ res1.val["intent"] = arg["intent"]

\* without a default zone, a worker document kept everything but its "@"
C21_NoZoneSeen ==
    /\ pc = "pp_once" /\ res1.ok /\ ~ZoneConfigured /\ IsWorkerDoc(arg)
    /\ "worker" \in DOMAIN arg
    /\ Get(arg, "zone_name") = "@"
    /\ res1.val = SetKey(arg, "zone_name", "example.com")

----------------------------------------------------------------------------
(* The fallback interpreter against the validator (checked under SpecFB) *)

\* the worker of a worker document is there, named within the limit and
\* dated YYYY-MM-DD
WorkerOk(d) ==
    /\ "worker" \in DOMAIN d
    /\ Len(GetOr(d["worker"], "name", "")) <= WorkerNameMax
    /\ DateOk(GetOr(d["worker"], "compatibility_date", ""))

\* C22: for every prompt and every configuration the fallback interpreter
\* returns a document that passes the validator's semantic rules: the
\* hostname is a valid FQDN, the zone_name a valid domain with a dot, and a
\* worker document holds a worker with a name of at most 63 characters and
\* a compatibility_date of the form YYYY-MM-DD, so that
\* _validate_custom_rules raises nothing on it.
C22_FallbackPassesSemanticRules ==
    FallbackRan =>
        /\ res1.ok
        /\ FqdnOk(res1.val["hostname"])
        /\ DomainOk(res1.val["zone_name"])
        /\ IsWorkerDoc(res1.val) => WorkerOk(res1.val)
        /\ _validate_custom_rules(res1.val).ok

====
